---- MODULE Spec2Model ----
(***************************************************************************)
(* Verification model of three notebooks of genai-ml-platform-examples:    *)
(*   - the MCP client and agent loop of                                    *)
(*     integration/MCP/Bedrock_marketplace_with_mcp_and_langchain.ipynb,   *)
(*   - the condition step of the SageMaker pipeline of                     *)
(*     operations/sagemaker-unified-model-registry/Directmarketing.ipynb,  *)
(*   - batch_evaluate of the Langfuse evaluation notebook.                 *)
(*                                                                         *)
(* A text (a model reply, a tool result) is a sequence of tokens.  The     *)
(* tokens "{", "}" and "," are the JSON punctuation, a token ending in     *)
(* ":" is a quoted key followed by its colon, a token of StrToks is a      *)
(* quoted JSON string, and "txt" is any run of prose.                      *)
(***************************************************************************)
EXTENDS Integers, Sequences, FiniteSets, TLC

\* ------------------------------------------------------------------ bounds
MaxLen == 4

MaxTurns == 3

MaxAccuracy == 100

MaxTraces == 2

MaxObs == 6

\* ------------------------------------------------------------------ tokens
KeyToks == {"operation:", "tool_name:", "tool_parameters:", "ChainOfThoughts:", "location:"}

StrToks == {"list_tools", "execute_tool", "fly", "get_weather", "get_time", "NY", "thought"}

KeyName(tok) ==
    CASE tok = "operation:" -> "operation"
      [] tok = "tool_name:" -> "tool_name"
      [] tok = "tool_parameters:" -> "tool_parameters"
      [] tok = "ChainOfThoughts:" -> "ChainOfThoughts"
      [] tok = "location:" -> "location"

EmptyDict == [k \in {} |-> <<>>]

Put(d, k, v) == [x \in (DOMAIN d) \cup {k} |-> IF x = k THEN v ELSE d[x]]

Only(S) == CHOOSE x \in S : TRUE

ParseFail == [ok |-> FALSE, next |-> 0, dict |-> EmptyDict]

\* json.loads on the token text: ParseValue reads one JSON value that starts
\* at position i, ParseMembers the members of an object up to its "}".  A
\* parsed object is a dictionary from key names to the text of each value;
\* a repeated key keeps its last value, as a Python dict does.
RECURSIVE ParseValue(_, _), ParseMembers(_, _, _)
ParseValue(s, i) ==
    IF i > Len(s) THEN ParseFail
    ELSE IF s[i] \in StrToks THEN [ok |-> TRUE, next |-> i + 1, dict |-> EmptyDict]
    ELSE IF s[i] = "{" THEN
        IF i + 1 <= Len(s) /\ s[i + 1] = "}"
        THEN [ok |-> TRUE, next |-> i + 2, dict |-> EmptyDict]
        ELSE ParseMembers(s, i + 1, EmptyDict)
    ELSE ParseFail

\* The member that starts at i, its value v already parsed.
AfterValue(s, i, acc, v) ==
    IF ~v.ok \/ v.next > Len(s) THEN ParseFail
    ELSE IF s[v.next] = "}"
    THEN [ok |-> TRUE, next |-> v.next + 1,
          dict |-> Put(acc, KeyName(s[i]), SubSeq(s, i + 1, v.next - 1))]
    ELSE IF s[v.next] = ","
    THEN ParseMembers(s, v.next + 1, Put(acc, KeyName(s[i]), SubSeq(s, i + 1, v.next - 1)))
    ELSE ParseFail

ParseMembers(s, i, acc) ==
    IF i > Len(s) \/ s[i] \notin KeyToks THEN ParseFail
    ELSE Only({AfterValue(s, i, acc, v) : v \in {ParseValue(s, i + 1)}})

Whole(s, r) ==
    IF r.ok /\ r.next = Len(s) + 1
    THEN [ok |-> TRUE, value |-> r.dict]
    ELSE [ok |-> FALSE, value |-> EmptyDict]

json_loads(s) == Only({Whole(s, r) : r \in {ParseValue(s, 1)}})

\* A JSON value is a Python str when it is a string token, a dict otherwise.
IsStr(v) == Len(v) = 1 /\ v[1] \in StrToks

\* re.search(r'\{([\s\S]*)\}', text): the leftmost "{" and, greedily, the last
\* "}" after it.
Positions(s, tok) == {i \in 1..Len(s) : s[i] = tok}

Min(S) == CHOOSE x \in S : \A y \in S : x <= y

Max(S) == CHOOSE x \in S : \A y \in S : x >= y

re_search(text) ==
    LET opens == Positions(text, "{")
        closes == Positions(text, "}")
    IN IF opens = {} \/ closes = {} \/ Max(closes) < Min(opens)
       THEN [found |-> FALSE, first |-> 0, last |-> 0]
       ELSE [found |-> TRUE, first |-> Min(opens), last |-> Max(closes)]

\* json_candidate is "{" + match.group(1) + "}".
LoadCandidate(json_candidate) ==
    IF json_loads(json_candidate).ok
    THEN [isJSON |-> TRUE, parsedJson |-> json_loads(json_candidate).value]
    ELSE [isJSON |-> FALSE, parsedJson |-> EmptyDict]

Candidate(text, match) ==
    IF ~match.found THEN [isJSON |-> FALSE, parsedJson |-> EmptyDict]
    ELSE Only({LoadCandidate(c) :
                 c \in {<<"{">> \o SubSeq(text, match.first + 1, match.last - 1) \o <<"}">>}})

is_valid_json(text) == Only({Candidate(text, match) : match \in {re_search(text)}})

\* is_tool_use: isTool tells which of tool_use and inputMessage was set;
\* the other one keeps its initial "".
\* ToolUse without the test for the key "operation".
ToolUse_AnyJson(input_data, is_json) ==
    IF is_json.isJSON
    THEN [isTool |-> TRUE, tool_use |-> is_json.parsedJson, inputMessage |-> <<>>]
    ELSE [isTool |-> FALSE, tool_use |-> EmptyDict, inputMessage |-> input_data]

\* ToolUse handing on, as the final answer, only the part of the reply from
\* its first "{" to its last "}".
ToolUse_Trimmed(input_data, is_json) ==
    IF is_json.isJSON /\ "operation" \in DOMAIN is_json.parsedJson
    THEN [isTool |-> TRUE, tool_use |-> is_json.parsedJson, inputMessage |-> <<>>]
    ELSE [isTool |-> FALSE, tool_use |-> EmptyDict,
          inputMessage |-> IF re_search(input_data).found
                           THEN SubSeq(input_data, re_search(input_data).first,
                                       re_search(input_data).last)
                           ELSE input_data]

ToolUse(input_data, is_json) ==
    IF is_json.isJSON /\ "operation" \in DOMAIN is_json.parsedJson
    THEN [isTool |-> TRUE, tool_use |-> is_json.parsedJson, inputMessage |-> <<>>]
    ELSE [isTool |-> FALSE, tool_use |-> EmptyDict, inputMessage |-> input_data]

is_tool_use(input_data) ==
    Only({ToolUse(input_data, is_json) : is_json \in {is_valid_json(input_data)}})

\* ------------------------------------------------- replies of the model
\* Replies the language model may give.  The first two are the replies of the
\* recorded run, the others cover the remaining shapes a reply can take.
R_list == <<"{", "operation:", "list_tools", "}">>

R_exec(tool, params) ==
    <<"{", "operation:", "execute_tool", ",", "tool_name:", tool, ",", "tool_parameters:">>
        \o params \o <<",", "ChainOfThoughts:", "thought", "}">>

R_final == <<"txt">>

SampleReplies ==
    { R_list,
      R_exec("get_weather", <<"{", "location:", "NY", "}">>),
      R_final,
      <<>>,
      R_exec("get_time", <<"{", "location:", "NY", "}">>),
      R_exec("get_weather", <<"{", "}">>),
      R_exec("get_weather", <<"NY">>),
      <<"{", "operation:", "execute_tool", "}">>,
      <<"{", "operation:", "list_tools", ",", "tool_name:", "get_weather", "}">>,
      <<"{", "operation:", "fly", "}">>,
      <<"{", "operation:", "{", "}", "}">>,
      <<"{", "ChainOfThoughts:", "thought", "}">>,
      <<"txt", "{", "operation:", "list_tools", "}", "txt">>,
      <<"{", "txt", "}">> }

ShortAlphabet ==
    {"{", "}", ",", "txt", "operation:", "list_tools", "fly", "tool_name:", "get_weather"}

ShortReplies == UNION {[1..n -> ShortAlphabet] : n \in 0..MaxLen}

Replies == ShortReplies \cup SampleReplies

\* ------------------------------------------------------------ MCP client
\* MCP_client.operation: the dispatch table, each method with the keyword
\* parameters it requires.
operation == [list_tools |-> {}, execute_tool |-> {"tool_name", "tool_parameters"}]

OperationNames == {<<"list_tools">>, <<"execute_tool">>}

ToolsListing == <<"[get_weather listing]">>

NoSuchOperationError == <<"NoSuchOperationError: Operation not supported.">>

\* weather_server.py behind FastMCP: the one tool get_weather(location: str).
\* An unknown tool or arguments that do not fit the signature come back as an
\* error result, not as an exception.
call_tool(tool_name, tool_parameters) ==
    IF tool_name # <<"get_weather">> THEN <<<<"Unknown tool">>, TRUE>>
    ELSE LET args == json_loads(tool_parameters).value IN
         IF "location" \in DOMAIN args /\ IsStr(args["location"])
         THEN <<<<"It's sunny in">> \o args["location"], FALSE>>
         ELSE <<<<"Error executing tool get_weather">>, TRUE>>

\* session.call_tool validates its request before sending it: the name must
\* be a str and the arguments a dict.
WellTyped(kwargs) == IsStr(kwargs["tool_name"]) /\ ~IsStr(kwargs["tool_parameters"])

\* ---------------------------------------------------- handle_llm_response
\* What handle_llm_response does with a reply before its first await:
\*   "AI"    it returns {"AI": inputMessage};
\*   "call"  it calls the client operation op with kwargs;
\*   "Tool"  it returns the NoSuchOperationError tool message;
\*   "raise" a TypeError leaves it: tool_use is "" and is indexed with
\*           "operation" (the empty reply), the operation value is a dict and
\*           cannot be looked up in the table, or kwargs do not fit the
\*           parameters of the method (a dict without "operation" would
\*           raise KeyError; is_tool_use never returns one).
\* Kwargs forwarding every key of the request.
Kwargs_AllKeys(tool_use) == tool_use

Kwargs(tool_use) ==
    [k \in (DOMAIN tool_use) \cap {"tool_name", "tool_parameters"} |-> tool_use[k]]

Decide(tool_use_response) ==
    LET tool_use == tool_use_response.tool_use IN
    IF tool_use_response.inputMessage # <<>>
    THEN [kind |-> "AI", AI |-> tool_use_response.inputMessage]
    ELSE IF ~tool_use_response.isTool THEN [kind |-> "raise", exc |-> "TypeError"]
    ELSE IF "operation" \notin DOMAIN tool_use THEN [kind |-> "raise", exc |-> "KeyError"]
    ELSE IF ~IsStr(tool_use["operation"]) THEN [kind |-> "raise", exc |-> "TypeError"]
    ELSE IF tool_use["operation"] \in OperationNames
    THEN IF DOMAIN Kwargs(tool_use) = operation[tool_use["operation"][1]]
         THEN [kind |-> "call", op |-> tool_use["operation"][1], kwargs |-> Kwargs(tool_use)]
         ELSE [kind |-> "raise", exc |-> "TypeError"]
    ELSE [kind |-> "Tool", Tool |-> NoSuchOperationError]

handle_llm_response(reply) ==
    Only({Decide(tool_use_response) : tool_use_response \in {is_tool_use(reply)}})

\* ------------------------------------------------------------------ state
VARIABLES
    messages,      \* the chat history, a list of {"role", "content"}
    AI_responded,  \* the loop's exit flag
    tool_response, \* the last tool message
    response,      \* the last reply of the model
    result,        \* the last value handle_llm_response returned
    prompt,        \* the history the last chain.invoke was given
    nInvoke,       \* number of chain.invoke calls so far
    pc,            \* where the cell is
    exc,           \* the exception in flight, "none" without one
    call,          \* the client operation in progress
    calls,         \* every client operation called so far, in order
    opResult,      \* (text, isError) the client operation returns
    transport,     \* the stdio_client context of the operation in progress
    session,       \* the ClientSession context of the operation in progress
    stdout,        \* what print(response) wrote after the loop
    \* the SageMaker pipeline execution
    accuracy,      \* accuracy of this execution's model, in hundredths
    report,        \* binary_classification_metrics.accuracy.value of evaluation.json
    pipePc,        \* the step the execution is at
    executed,      \* the steps executed so far, in order
    modelPackages, \* model packages created in the model package group
    \* the Langfuse evaluation
    traces,        \* the traces Langfuse holds, newest first
    evalPc,        \* where batch_evaluate is
    traces_batch,  \* the fetched page of traces (positions in traces)
    todo,          \* the observations the for loop still has to visit
    scores         \* the (trace, observation) pairs langfuse.score was called for

agentVars ==
    <<messages, AI_responded, tool_response, response, result, prompt, nInvoke,
      pc, exc, call, calls, opResult, transport, session, stdout>>

pipeVars == <<accuracy, report, pipePc, executed, modelPackages>>

evalVars == <<traces, evalPc, traces_batch, todo, scores>>

vars == <<agentVars, pipeVars, evalVars>>

systemMessage == <<"systemMessage">>

question == <<"What's the weather in New York?">>

Msg(role, content) == [role |-> role, content |-> content]

Unbound == [unbound |-> TRUE]

NoCall == [op |-> "none", kwargs |-> EmptyDict]

call_id == "uuid4"

InitAgent ==
    /\ messages = <<Msg("system", systemMessage), Msg("user", question)>>
    /\ AI_responded = FALSE
    /\ tool_response = <<>>
    /\ response = <<>>
    /\ result = Unbound
    /\ prompt = <<>>
    /\ nInvoke = 0
    /\ pc = "invoke"
    /\ exc = "none"
    /\ call = NoCall
    /\ calls = <<>>
    /\ opResult = <<<<>>, FALSE>>
    /\ transport = "closed"
    /\ session = "none"
    /\ stdout = <<>>

\* while not AI_responded: response = chain.invoke(messages);
\* messages.append({"role": "ai", "content": response})
Invoke ==
    /\ pc = "invoke"
    /\ ~AI_responded
    /\ nInvoke < MaxTurns
    /\ \E reply \in SampleReplies :
          /\ response' = reply
          /\ messages' = Append(messages, Msg("ai", reply))
    /\ prompt' = messages
    /\ nInvoke' = nInvoke + 1
    /\ pc' = "handle"
    /\ UNCHANGED <<AI_responded, tool_response, result, exc, call, calls, opResult,
                   transport, session, stdout, pipeVars, evalVars>>

\* AppendTool without the append to the history.
AppendTool_NoAppend(tool) ==
    /\ result' = [Tool |-> tool, call_id |-> call_id]
    /\ messages' = messages
    /\ tool_response' = tool
    /\ pc' = "invoke"

\* AppendTool storing the tool message under a role of its own.
AppendTool_RoleTool(tool) ==
    /\ result' = [Tool |-> tool, call_id |-> call_id]
    /\ messages' = Append(messages, Msg("tool", tool))
    /\ tool_response' = tool
    /\ pc' = "invoke"

\* AppendTool putting the tool message in the place of the request it answers.
AppendTool_ReplaceLast(tool) ==
    /\ result' = [Tool |-> tool, call_id |-> call_id]
    /\ messages' = [messages EXCEPT ![Len(messages)] = Msg("user", tool)]
    /\ tool_response' = tool
    /\ pc' = "invoke"

\* The loop's else branch: messages.append({"role": "user", ...});
\* tool_response = result["Tool"]
AppendTool(tool) ==
    /\ result' = [Tool |-> tool, call_id |-> call_id]
    /\ messages' = Append(messages, Msg("user", tool))
    /\ tool_response' = tool
    /\ pc' = "invoke"

\* handle_llm_response returns {"AI": ...}; the loop sets AI_responded.
HandleFinal ==
    /\ pc = "handle"
    /\ LET h == handle_llm_response(response) IN
          /\ h.kind = "AI"
          /\ result' = [AI |-> h.AI]
    /\ AI_responded' = TRUE
    /\ pc' = "exit"
    /\ UNCHANGED <<messages, tool_response, response, prompt, nInvoke, exc, call, calls,
                   opResult, transport, session, stdout, pipeVars, evalVars>>

\* The operation is not in the table: the tool message goes to the history.
HandleNoSuchOperation ==
    /\ pc = "handle"
    /\ LET h == handle_llm_response(response) IN
          /\ h.kind = "Tool"
          /\ AppendTool(h.Tool)
    /\ UNCHANGED <<AI_responded, response, prompt, nInvoke, exc, call, calls, opResult,
                   transport, session, stdout, pipeVars, evalVars>>

\* HandleRaise with the exception caught and turned into a tool message.
HandleRaise_Caught ==
    /\ pc = "handle"
    /\ LET h == handle_llm_response(response) IN
          /\ h.kind = "raise"
          /\ AppendTool(<<"Error: ", h.exc>>)
    /\ UNCHANGED <<AI_responded, response, prompt, nInvoke, exc, call, calls, opResult,
                   transport, session, stdout, pipeVars, evalVars>>

\* A TypeError leaves handle_llm_response and the loop.
HandleRaise ==
    /\ pc = "handle"
    /\ LET h == handle_llm_response(response) IN
          /\ h.kind = "raise"
          /\ exc' = h.exc
    /\ pc' = "raised"
    /\ UNCHANGED <<messages, AI_responded, tool_response, response, result, prompt, nInvoke,
                   call, calls, opResult, transport, session, stdout, pipeVars, evalVars>>

\* await weather_client.operation[...](**kwargs)
HandleDispatch ==
    /\ pc = "handle"
    /\ LET h == handle_llm_response(response) IN
          /\ h.kind = "call"
          /\ call' = [op |-> h.op, kwargs |-> h.kwargs]
          /\ calls' = Append(calls, [op |-> h.op, kwargs |-> h.kwargs])
    /\ pc' = "stdio"
    /\ UNCHANGED <<messages, AI_responded, tool_response, response, result, prompt, nInvoke,
                   exc, opResult, transport, session, stdout, pipeVars, evalVars>>

\* async with stdio_client(self.server_params) as (read, write)
StdioOpen ==
    /\ pc = "stdio"
    /\ transport' = "open"
    /\ pc' = "session"
    /\ UNCHANGED <<messages, AI_responded, tool_response, response, result, prompt, nInvoke,
                   exc, call, calls, opResult, session, stdout, pipeVars, evalVars>>

\* async with ClientSession(read, write) as session
SessionEnter ==
    /\ pc = "session"
    /\ session' = "entered"
    /\ pc' = "initialize"
    /\ UNCHANGED <<messages, AI_responded, tool_response, response, result, prompt, nInvoke,
                   exc, call, calls, opResult, transport, stdout, pipeVars, evalVars>>

\* await session.initialize()
SessionInitialize ==
    /\ pc = "initialize"
    /\ session' = "initialized"
    /\ pc' = "request"
    /\ UNCHANGED <<messages, AI_responded, tool_response, response, result, prompt, nInvoke,
                   exc, call, calls, opResult, transport, stdout, pipeVars, evalVars>>

\* await session.list_tools() / await session.call_tool(...), and the return
\* statement's tuple.  An ill-typed call_tool request raises in the client.
SessionRequest ==
    /\ pc = "request"
    /\ IF call.op = "list_tools"
       THEN opResult' = <<ToolsListing, FALSE>> /\ exc' = exc
       ELSE IF WellTyped(call.kwargs)
       THEN /\ opResult' = call_tool(call.kwargs["tool_name"], call.kwargs["tool_parameters"])
            /\ exc' = exc
       ELSE opResult' = opResult /\ exc' = "ValidationError"
    /\ pc' = "exit_session"
    /\ UNCHANGED <<messages, AI_responded, tool_response, response, result, prompt, nInvoke,
                   call, calls, transport, session, stdout, pipeVars, evalVars>>

\* The request fails in the transport or the server: the library raises.
RequestFails ==
    /\ pc = "request"
    /\ exc' = "McpError"
    /\ pc' = "exit_session"
    /\ UNCHANGED <<messages, AI_responded, tool_response, response, result, prompt, nInvoke,
                   call, calls, opResult, transport, session, stdout, pipeVars, evalVars>>

\* SessionExit closing the session only when the request returned.
SessionExit_OnReturnOnly ==
    /\ pc = "exit_session"
    /\ session' = IF exc = "none" THEN "none" ELSE session
    /\ pc' = "exit_stdio"
    /\ UNCHANGED <<messages, AI_responded, tool_response, response, result, prompt, nInvoke,
                   exc, call, calls, opResult, transport, stdout, pipeVars, evalVars>>

\* Leaving the ClientSession block, by return or by exception.
SessionExit ==
    /\ pc = "exit_session"
    /\ session' = "none"
    /\ pc' = "exit_stdio"
    /\ UNCHANGED <<messages, AI_responded, tool_response, response, result, prompt, nInvoke,
                   exc, call, calls, opResult, transport, stdout, pipeVars, evalVars>>

\* Leaving the stdio_client block; an exception in flight goes on to the loop.
StdioClose ==
    /\ pc = "exit_stdio"
    /\ transport' = "closed"
    /\ call' = NoCall
    /\ pc' = IF exc = "none" THEN "return" ELSE "raised"
    /\ UNCHANGED <<messages, AI_responded, tool_response, response, result, prompt, nInvoke,
                   exc, calls, opResult, session, stdout, pipeVars, evalVars>>

\* ToolMessage without the error branch.
ToolMessage_NoPrefix(r) == r[1]

\* ToolMessage answering from the last tool message once there is one.
ToolMessage_Cached(r) ==
    IF tool_response # <<>> THEN tool_response
    ELSE IF r[2] THEN <<"Error: ">> \o r[1] ELSE r[1]

\* if result[1]: return {"Tool": f"Error: {result[0]}", ...} else result[0]
ToolMessage(r) == IF r[2] THEN <<"Error: ">> \o r[1] ELSE r[1]

\* handle_llm_response returns the tool message of the operation's result and
\* the loop appends it.
HandleReturn ==
    /\ pc = "return"
    /\ AppendTool(ToolMessage(opResult))
    /\ UNCHANGED <<AI_responded, response, prompt, nInvoke, exc, call, calls, opResult,
                   transport, session, stdout, pipeVars, evalVars>>

\* print(response) after the loop
PrintResponse ==
    /\ pc = "exit"
    /\ stdout' = response
    /\ pc' = "done"
    /\ UNCHANGED <<messages, AI_responded, tool_response, response, result, prompt, nInvoke,
                   exc, call, calls, opResult, transport, session, pipeVars, evalVars>>

\* ------------------------------------------------ SageMaker pipeline
\* right=0.8 of the condition, in hundredths.
right == 80

ConditionGreaterThanOrEqualTo(left, r) == left >= r

\* cond_lte: the condition of step_cond on the evaluation report.
cond_lte == ConditionGreaterThanOrEqualTo(report, right)

if_steps == <<"MarketingRegisterModel">>

else_steps == <<>>

NoReport == 0 - 1

PipeIdle ==
    /\ accuracy = 0
    /\ report = NoReport
    /\ pipePc = "idle"
    /\ executed = <<>>
    /\ modelPackages = 0

\* pipeline.start(): the steps run in the order of their data dependencies.
PipelineStart ==
    /\ accuracy \in 0..MaxAccuracy
    /\ report = NoReport
    /\ pipePc = "MarketingProcess"
    /\ executed = <<>>
    /\ modelPackages = 0

RunStep(name, next) ==
    /\ pipePc = name
    /\ executed' = Append(executed, name)
    /\ pipePc' = next

StepProcess ==
    /\ RunStep("MarketingProcess", "MarketingTrain")
    /\ UNCHANGED <<accuracy, report, modelPackages, agentVars, evalVars>>

StepTrain ==
    /\ RunStep("MarketingTrain", "MarketingEval")
    /\ UNCHANGED <<accuracy, report, modelPackages, agentVars, evalVars>>

\* evaluation.py writes acc to evaluation.json.
StepEval ==
    /\ RunStep("MarketingEval", "MarketingAccuracyCond")
    /\ report' = accuracy
    /\ UNCHANGED <<accuracy, modelPackages, agentVars, evalVars>>

Branch(steps) == IF steps = <<>> THEN "Succeeded" ELSE steps[1]

\* step_cond: if_steps when the condition holds, else_steps otherwise.
StepCond ==
    /\ RunStep("MarketingAccuracyCond", IF cond_lte THEN Branch(if_steps) ELSE Branch(else_steps))
    /\ UNCHANGED <<accuracy, report, modelPackages, agentVars, evalVars>>

\* step_register creates a model package in the group.
StepRegister ==
    /\ RunStep("MarketingRegisterModel", "Succeeded")
    /\ modelPackages' = modelPackages + 1
    /\ UNCHANGED <<accuracy, report, agentVars, evalVars>>

PipelineNext == StepProcess \/ StepTrain \/ StepEval \/ StepCond \/ StepRegister

\* -------------------------------------------------- Langfuse evaluation
\* A trace: match tells whether it carries the tag lab3.1, belongs to the
\* session nova-batch-generation-session and lies in the last 24 hours; it
\* has n GENERATION observations, and observation none (if not 0) has no
\* output.
Traces == [match : BOOLEAN, n : 0..MaxObs, none : 0..MaxObs]

TraceStores ==
    UNION {{st \in [1..k -> Traces] : \A t \in 1..k : st[t].none <= st[t].n} : k \in 0..MaxTraces}

\* observations[-5:]
LastObservations == 5

limit == 1

EvalIdle ==
    /\ traces = <<>>
    /\ evalPc = "idle"
    /\ traces_batch = <<>>
    /\ todo = <<>>
    /\ scores = {}

EvalStart ==
    /\ traces \in TraceStores
    /\ evalPc = "fetch_traces"
    /\ traces_batch = <<>>
    /\ todo = <<>>
    /\ scores = {}

RECURSIVE Matching(_, _)
Matching(st, i) ==
    IF i > Len(st) THEN <<>>
    ELSE IF st[i].match THEN <<i>> \o Matching(st, i + 1)
    ELSE Matching(st, i + 1)

\* langfuse.fetch_traces(page=1, limit=1, tags, session_id, from, to).data
fetch_traces(st) == SubSeq(Matching(st, 1), 1, IF Len(Matching(st, 1)) < limit THEN Len(Matching(st, 1)) ELSE limit)

\* observations[-5:] of a list of n observations
Slice(n) == [k \in 1..(IF n < LastObservations THEN n ELSE LastObservations) |->
                 k + (IF n < LastObservations THEN 0 ELSE n - LastObservations)]

BatchFetchTraces ==
    /\ evalPc = "fetch_traces"
    /\ traces_batch' = fetch_traces(traces)
    /\ evalPc' = "fetch_observations"
    /\ UNCHANGED <<traces, todo, scores, agentVars, pipeVars>>

\* traces_batch[0] of an empty page raises IndexError.
BatchFetchObservations ==
    /\ evalPc = "fetch_observations"
    /\ IF traces_batch = <<>>
       THEN evalPc' = "raised" /\ todo' = todo
       ELSE evalPc' = "loop" /\ todo' = Slice(traces[traces_batch[1]].n)
    /\ UNCHANGED <<traces, traces_batch, scores, agentVars, pipeVars>>

\* observation.output is None: continue
BatchSkip ==
    /\ evalPc = "loop"
    /\ todo # <<>>
    /\ traces[traces_batch[1]].none = Head(todo)
    /\ todo' = Tail(todo)
    /\ UNCHANGED <<traces, evalPc, traces_batch, scores, agentVars, pipeVars>>

\* generate_readability_score and langfuse.score on the observation
BatchScore ==
    /\ evalPc = "loop"
    /\ todo # <<>>
    /\ traces[traces_batch[1]].none # Head(todo)
    /\ scores' = scores \cup {<<traces_batch[1], Head(todo)>>}
    /\ todo' = Tail(todo)
    /\ UNCHANGED <<traces, evalPc, traces_batch, agentVars, pipeVars>>

\* explanation, score = readability_score.split("\n\n") raises ValueError
\* when the judge's answer does not have exactly two parts.
BatchScoreRaises ==
    /\ evalPc = "loop"
    /\ todo # <<>>
    /\ traces[traces_batch[1]].none # Head(todo)
    /\ evalPc' = "raised"
    /\ UNCHANGED <<traces, traces_batch, todo, scores, agentVars, pipeVars>>

BatchReturn ==
    /\ evalPc = "loop"
    /\ todo = <<>>
    /\ evalPc' = "done"
    /\ UNCHANGED <<traces, traces_batch, todo, scores, agentVars, pipeVars>>

EvalNext ==
    \/ BatchFetchTraces
    \/ BatchFetchObservations
    \/ BatchSkip
    \/ BatchScore
    \/ BatchScoreRaises
    \/ BatchReturn

\* -------------------------------------------------------- specifications
HandleNext ==
    \/ HandleFinal
    \/ HandleNoSuchOperation
    \/ HandleRaise
    \/ HandleDispatch
    \/ StdioOpen
    \/ SessionEnter
    \/ SessionInitialize
    \/ SessionRequest
    \/ RequestFails
    \/ SessionExit
    \/ StdioClose
    \/ HandleReturn
    \/ PrintResponse

Init == InitAgent /\ PipeIdle /\ EvalIdle

Next == Invoke \/ HandleNext

Spec == Init /\ [][Next]_vars

\* One pass of the loop body for every reply of Replies: the state right
\* after the first chain.invoke returned reply, then handle_llm_response and
\* the rest of the iteration.
InitHandle ==
    /\ \E reply \in Replies :
          /\ response = reply
          /\ messages = <<Msg("system", systemMessage), Msg("user", question), Msg("ai", reply)>>
    /\ AI_responded = FALSE
    /\ tool_response = <<>>
    /\ result = Unbound
    /\ prompt = <<Msg("system", systemMessage), Msg("user", question)>>
    /\ nInvoke = 1
    /\ pc = "handle"
    /\ exc = "none"
    /\ call = NoCall
    /\ calls = <<>>
    /\ opResult = <<<<>>, FALSE>>
    /\ transport = "closed"
    /\ session = "none"
    /\ stdout = <<>>
    /\ PipeIdle
    /\ EvalIdle

SpecHandle == InitHandle /\ [][HandleNext]_vars

InitPipeline == InitAgent /\ PipelineStart /\ EvalIdle

SpecPipeline == InitPipeline /\ [][PipelineNext]_vars

InitEval == InitAgent /\ PipeIdle /\ EvalStart

SpecEval == InitEval /\ [][EvalNext]_vars

\* ------------------------------------------------------------- properties
Last(seq) == seq[Len(seq)]

\* The iteration that handles response is over: the loop was left, or it is
\* back at its head.
Handled == pc \in {"exit", "done", "raised"} \/ (pc = "invoke" /\ nInvoke > 0)

\* A JSON object can be parsed from the reply and it has the key "operation".
HasOperation(reply) ==
    is_valid_json(reply).isJSON /\ "operation" \in DOMAIN is_valid_json(reply).parsedJson

C2_ToolResultFedBack ==
    (pc = "handle" /\ nInvoke > 1) =>
        /\ prompt = SubSeq(messages, 1, Len(messages) - 1)
        /\ Len(prompt) = 2 * nInvoke
        /\ "Tool" \in DOMAIN result
        /\ Last(prompt) = Msg("user", result.Tool)
        /\ prompt[Len(prompt) - 1].role = "ai"
        /\ HasOperation(prompt[Len(prompt) - 1].content)

\* The model is invoked a second time, after an execute_tool dispatch.
C2_Witness ==
    /\ pc = "handle"
    /\ nInvoke = 2
    /\ Len(calls) = 1
    /\ calls[1].op = "execute_tool"
    /\ Last(prompt) = Msg("user", <<"It's sunny in", "NY">>)

\* C3 as stated: handle_llm_response returns, for every reply, either a result
\* with key AI and no key Tool or one with key Tool and no key AI.
C3_TwoOutcomes ==
    Handled => /\ exc = "none"
               /\ ("AI" \in DOMAIN result) # ("Tool" \in DOMAIN result)

\* C4 as stated: only list_tools and execute_tool are ever called on the
\* client, and a request with any other operation value calls nothing, yields
\* the NoSuchOperationError tool message and the loop goes on with it.
C4_FixedDispatchTable ==
    /\ \A i \in 1..Len(calls) : calls[i].op \in {"list_tools", "execute_tool"}
    /\ (/\ Handled
        /\ HasOperation(response)
        /\ is_valid_json(response).parsedJson["operation"] \notin OperationNames)
       => /\ pc = "invoke"
          /\ Last(messages) = Msg("user", NoSuchOperationError)
          /\ Len(calls) < nInvoke

\* C5 as stated (its first half): once the model gives a reply that is not a
\* tool invocation, the loop exits with AI_responded true.
C5_NonToolReplyExits ==
    (Handled /\ ~HasOperation(response)) => AI_responded

\* C6: when the dispatched operation returns with its error flag set, the tool
\* message is "Error: " and the tool's text, it is appended to the history as
\* the tool result, and the loop goes on: the error does not end the loop and
\* the operation is not called again.
C6_ToolErrorBecomesMessage ==
    /\ [][(pc = "return" /\ opResult[2]) =>
            /\ result' = [Tool |-> <<"Error: ">> \o opResult[1], call_id |-> call_id]
            /\ messages' = Append(messages, Msg("user", <<"Error: ">> \o opResult[1]))
            /\ tool_response' = <<"Error: ">> \o opResult[1]
            /\ pc' = "invoke"
            /\ ~AI_responded'
            /\ calls' = calls]_vars
    /\ [][(pc \in {"exit_session", "exit_stdio"} /\ exc = "none") =>
            (pc' \in {"exit_stdio", "return"} /\ exc' = "none")]_vars
    /\ [](Len(calls) <= nInvoke)

\* The loop is back at its head after the server answered "Unknown tool".
C6_Witness ==
    /\ pc = "invoke"
    /\ ~AI_responded
    /\ opResult = <<<<"Unknown tool">>, TRUE>>
    /\ Last(messages) = Msg("user", <<"Error: ", "Unknown tool">>)

\* C7 as stated: no execute_tool is dispatched to the client unless a
\* list_tools was dispatched earlier in the conversation.
C7_ListBeforeExecute ==
    \A i \in 1..Len(calls) :
        calls[i].op = "execute_tool" => \E j \in 1..(i - 1) : calls[j].op = "list_tools"

\* C8 as stated: MarketingRegisterModel runs only when the accuracy is
\* strictly greater than the threshold; when it is not, nothing runs after the
\* condition step and no model package is created.
C8_RegisterOnlyAbove ==
    /\ (pipePc = "MarketingRegisterModel" \/ modelPackages > 0) => report > right
    /\ (pipePc = "Succeeded" /\ report <= right) =>
           (modelPackages = 0 /\ Last(executed) = "MarketingAccuracyCond")

\* C9 as stated: after one run of batch_evaluate every matching trace of the
\* last 24 hours has had each of its generation outputs scored.
C9_AllTracesScored ==
    evalPc = "done" =>
        \A t \in 1..Len(traces) :
            traces[t].match =>
                \A o \in 1..traces[t].n : o # traces[t].none => <<t, o>> \in scores

Count(role) == Cardinality({i \in 3..Len(messages) : messages[i].role = role})

\* C10: the history starts with the system message and the question, and the
\* later messages alternate ai reply, tool result (role user); when the loop
\* has exited the last message is an ai reply and there is one ai message more
\* than tool results.
C10_HistoryShape ==
    /\ Len(messages) >= 2
    /\ messages[1] = Msg("system", systemMessage)
    /\ messages[2] = Msg("user", question)
    /\ \A i \in 3..Len(messages) : messages[i].role = IF i % 2 = 1 THEN "ai" ELSE "user"
    /\ pc \in {"exit", "done", "raised"} =>
           /\ Last(messages).role = "ai"
           /\ Count("ai") = Count("user") + 1

\* The loop has exited after two tool results.
C10_Witness ==
    /\ pc = "done"
    /\ Len(messages) = 7
    /\ Count("user") = 2

\* C11: the history is append-only.  A step either leaves the history as it
\* is or appends one message to it, the earlier messages unchanged: the ai
\* reply at the head of an iteration, then at most one tool result (role
\* user) before the next iteration; the system message and the question stay
\* the first two messages.
C11_AppendOnly ==
    /\ [][\/ messages' = messages
          \/ /\ pc = "invoke"
             /\ messages' = Append(messages, Msg("ai", response'))
          \/ /\ pc \in {"handle", "return"}
             /\ pc' = "invoke"
             /\ messages' = Append(messages, Msg("user", tool_response'))]_vars
    /\ [](/\ Count("ai") = nInvoke
          /\ Count("user") \in {nInvoke - 1, nInvoke}
          /\ pc # "invoke" => Count("user") = nInvoke - 1
          /\ SubSeq(messages, 1, 2) = <<Msg("system", systemMessage), Msg("user", question)>>)

\* The second iteration has appended its ai reply and its tool result behind
\* the four messages its invocation was given.
C11_Witness ==
    /\ pc = "invoke"
    /\ nInvoke = 2
    /\ Len(messages) = 6
    /\ SubSeq(messages, 1, 4) = prompt
    /\ messages[6] = Msg("user", tool_response)

\* The part of a reply from its first "{" to its last "}".
Braces(text) == SubSeq(text, re_search(text).first, re_search(text).last)

C13_FinalAnswerVerbatim ==
    /\ AI_responded =>
           /\ result = [AI |-> response]
           /\ Last(messages) = Msg("ai", response)
    /\ pc = "done" => (AI_responded /\ stdout = response)

\* A final answer with text before a JSON object has been printed whole.
C13_Witness ==
    /\ pc = "done"
    /\ response = <<"txt", "{", "}">>
    /\ stdout = response
    /\ result = [AI |-> response]

\* The tool names in the result of list_tools.
ListedTools == {<<"get_weather">>}

WrongArguments(reply) ==
    /\ HasOperation(reply)
    /\ LET tool_use == is_valid_json(reply).parsedJson IN
          /\ tool_use["operation"] \in OperationNames
          /\ (DOMAIN tool_use) \cap {"tool_name", "tool_parameters"}
                 # operation[tool_use["operation"][1]]

\* C15: handle_llm_response catches no exception and turns only results with
\* the error flag into "Error: ..." strings.  A request that calls the method
\* with the wrong arguments raises; an exception, raised by the call or within
\* the operation, is never turned into a result: it leaves the loop, which
\* does not go on, no tool message is appended and the history ends in the ai
\* request.  A result without the error flag is passed on as it is.
C15_ExceptionsPropagate ==
    /\ [][(pc = "handle" /\ WrongArguments(response)) =>
            (pc' = "raised" /\ exc' # "none" /\ messages' = messages)]_vars
    /\ [](exc # "none" => pc \in {"exit_session", "exit_stdio", "raised"})
    /\ [](pc = "raised" =>
            /\ exc # "none"
            /\ ~AI_responded
            /\ Last(messages) = Msg("ai", response)
            /\ Count("user") = nInvoke - 1)
    /\ [][pc = "raised" => (pc' = "raised" /\ messages' = messages)]_vars
    /\ [][(pc = "return" /\ ~opResult[2]) => tool_response' = opResult[1]]_vars

\* A list_tools request carrying tool_name has raised out of the loop in the
\* second iteration.
C15_Witness ==
    /\ pc = "raised"
    /\ exc = "TypeError"
    /\ nInvoke = 2
    /\ response = <<"{", "operation:", "list_tools", ",", "tool_name:", "get_weather", "}">>
    /\ Len(messages) = 5

\* The reply asks for an operation of the table and has, of tool_name and
\* tool_parameters, the ones the method takes.
Dispatchable(reply) ==
    /\ HasOperation(reply)
    /\ is_valid_json(reply).parsedJson["operation"] \in OperationNames
    /\ ~WrongArguments(reply)

\* The arguments are those of tool_name and tool_parameters the request has,
\* with the values the request gives them.
ForwardedFrom(kwargs, tool_use) ==
    /\ DOMAIN kwargs = (DOMAIN tool_use) \cap {"tool_name", "tool_parameters"}
    /\ \A k \in DOMAIN kwargs : kwargs[k] = tool_use[k]

\* C16: the client operation a request names is called with exactly those of
\* tool_name and tool_parameters that the request has, their values unchanged,
\* and with nothing else of the request: a request that has other keys
\* besides (operation, ChainOfThoughts) is dispatched all the same, and the
\* operation in progress works on the arguments of the last dispatch.
C16_OnlyNamedArgumentsForwarded ==
    /\ [][(pc = "handle" /\ Dispatchable(response)) =>
            /\ pc' = "stdio"
            /\ call'.op = is_valid_json(response).parsedJson["operation"][1]
            /\ ForwardedFrom(call'.kwargs, is_valid_json(response).parsedJson)
            /\ calls' = Append(calls, call')]_vars
    /\ [][calls' # calls => (pc = "handle" /\ Dispatchable(response))]_vars
    /\ [](pc \in {"stdio", "session", "initialize", "request"} => call = Last(calls))
    /\ [](\A i \in 1..Len(calls) :
             DOMAIN calls[i].kwargs \subseteq {"tool_name", "tool_parameters"})

\* The recorded execute_tool request, which also has ChainOfThoughts, is
\* about to be sent with its two arguments.
C16_Witness ==
    /\ pc = "request"
    /\ "ChainOfThoughts" \in DOMAIN is_valid_json(response).parsedJson
    /\ call.op = "execute_tool"
    /\ call.kwargs = [tool_name |-> <<"get_weather">>,
                      tool_parameters |-> <<"{", "location:", "NY", "}">>]

\* C17: every client operation has a transport and a session of its own.  A
\* dispatch starts with nothing open and opens a transport, then a session in
\* it; the session is initialized when the request is sent; after its one
\* request the session and then the transport are closed, whether the request
\* returned or failed, before the operation returns or raises; outside an
\* operation nothing is open.
C17_SessionPerOperation ==
    /\ [](pc \notin {"session", "initialize", "request", "exit_session", "exit_stdio"} =>
            (transport = "closed" /\ session = "none"))
    /\ [](session # "none" => transport = "open")
    /\ [](pc = "request" => session = "initialized")
    /\ [][calls' # calls =>
            (transport = "closed" /\ session = "none" /\ pc' = "stdio")]_vars
    /\ [][pc = "stdio" => (transport' = "open" /\ session' = "none")]_vars
    /\ [][(session = "none" /\ session' # "none") =>
            (pc = "session" /\ session' = "entered")]_vars
    /\ [][pc = "request" => (pc' = "exit_session" /\ session' = session)]_vars
    /\ [][pc = "exit_session" => (session' = "none" /\ transport' = "open")]_vars
    /\ [][pc = "exit_stdio" =>
            /\ transport' = "closed"
            /\ pc' = IF exc = "none" THEN "return" ELSE "raised"]_vars

\* The request of the second operation failed, and nothing is left open.
C17_Witness ==
    /\ pc = "raised"
    /\ exc = "McpError"
    /\ Len(calls) = 2
    /\ transport = "closed"
    /\ session = "none"

\* The tool message for a reply that is a tool request, given the (text,
\* isError) the server answered with if the request was dispatched.
Outcome(reply, answer) ==
    IF ~Dispatchable(reply) THEN NoSuchOperationError
    ELSE IF answer[2] THEN <<"Error: ">> \o answer[1]
    ELSE answer[1]

\* C18: the dispatch keeps no state.  Whatever was handled before, the tool
\* message an iteration ends with is one fixed function of the reply and of
\* the server's answer; and within a conversation the same reply, handled
\* again against the same server, is followed by the same tool message,
\* whatever was dispatched in between.
C18_StatelessDispatch ==
    /\ (pc = "invoke" /\ nInvoke > 0) =>
           /\ tool_response = Outcome(response, opResult)
           /\ Last(messages) = Msg("user", tool_response)
    /\ \A i, j \in 1..nInvoke :
           (/\ 2 * i + 2 <= Len(messages)
            /\ 2 * j + 2 <= Len(messages)
            /\ messages[2 * i + 1] = messages[2 * j + 1])
           => messages[2 * i + 2] = messages[2 * j + 2]

\* The first reply was given again as the third, after a different request in
\* between, and got the tool message it got the first time.
C18_Witness ==
    /\ pc = "invoke"
    /\ Len(messages) = 8
    /\ messages[7] = messages[3]
    /\ messages[5] # messages[3]
    /\ messages[6] # messages[4]
    /\ messages[8] = messages[4]

====
